---------------------------- MODULE Spec2Model ----------------------------
(***************************************************************************)
(* Tiered backup rotation (mirrorBackups.py) over the sandboxed shell      *)
(* layer (myshutil.py).                                                    *)
(*                                                                         *)
(* A path is a sequence of components, a component is a sequence of        *)
(* one-character strings, so that the directory-name codec and the sort    *)
(* by path are computed on characters, as the code computes them.          *)
(***************************************************************************)
EXTENDS Integers, Sequences, FiniteSets, TLC

(***************************************************************************)
(* Characters                                                              *)
(***************************************************************************)

\* The characters of the model in ASCII order; Ord is order-preserving.
Alphabet ==
  << " ", "+", "-", "0", "1", "2", "3", "4", "5", "6", "7", "8", "9", "<", ">", "_",
     "a", "b", "c", "d", "e", "f", "g", "h", "i", "j", "k", "l", "m",
     "n", "o", "p", "q", "r", "s", "t", "u", "v", "w", "x", "y", "z" >>

OrdTable ==
  [c \in { Alphabet[i] : i \in 1..Len(Alphabet) } |->
     CHOOSE i \in 1..Len(Alphabet) : Alphabet[i] = c]

Ord(c) == OrdTable[c]

DigitChars == << "0", "1", "2", "3", "4", "5", "6", "7", "8", "9" >>

IsDigit(c) == \E i \in 1..10 : DigitChars[i] = c

DigitVal(c) == (CHOOSE i \in 1..10 : DigitChars[i] = c) - 1

\* Python's str comparison: lexicographic by code point, a proper prefix first.
RECURSIVE StrLess(_, _)
StrLess(a, b) ==
  IF b = << >> THEN FALSE
  ELSE IF a = << >> THEN TRUE
  ELSE IF Head(a) = Head(b) THEN StrLess(Tail(a), Tail(b))
  ELSE Ord(Head(a)) < Ord(Head(b))

(***************************************************************************)
(* int(str) and datetime(year, month, day), as path_to_date uses them      *)
(***************************************************************************)

RECURSIVE LStrip(_)
LStrip(s) == IF s # << >> /\ Head(s) = " " THEN LStrip(Tail(s)) ELSE s

RECURSIVE RStrip(_)
RStrip(s) ==
  IF s # << >> /\ s[Len(s)] = " " THEN RStrip(SubSeq(s, 1, Len(s) - 1)) ELSE s

\* The digits of an int literal: single underscores may separate digits.
IsIntBody(s) ==
  /\ s # << >>
  /\ IsDigit(s[1])
  /\ IsDigit(s[Len(s)])
  /\ \A i \in 1..Len(s) : IsDigit(s[i]) \/ s[i] = "_"
  /\ \A i \in 1..(Len(s) - 1) : ~(s[i] = "_" /\ s[i + 1] = "_")

RECURSIVE IntBodyVal(_, _)
IntBodyVal(s, acc) ==
  IF s = << >> THEN acc
  ELSE IF Head(s) = "_" THEN IntBodyVal(Tail(s), acc)
  ELSE IntBodyVal(Tail(s), 10 * acc + DigitVal(Head(s)))

\* int(s): surrounding whitespace and one sign are accepted; ok = FALSE is
\* the ValueError.
PyInt(s) ==
  LET t == RStrip(LStrip(s))
      signed == t # << >> /\ t[1] \in {"+", "-"}
      body == IF signed THEN Tail(t) ELSE t
  IN  IF IsIntBody(body)
      THEN [ok |-> TRUE,
            val |-> IF signed /\ t[1] = "-" THEN 0 - IntBodyVal(body, 0)
                    ELSE IntBodyVal(body, 0)]
      ELSE [ok |-> FALSE, val |-> 0]

IsLeap(y) == (y % 4 = 0 /\ y % 100 # 0) \/ y % 400 = 0

DaysInMonth(y, m) ==
  IF m = 2 THEN (IF IsLeap(y) THEN 29 ELSE 28)
  ELSE IF m \in {4, 6, 9, 11} THEN 30 ELSE 31

\* datetime(y, m, d) raises ValueError outside these ranges.
ValidDate(y, m, d) ==
  /\ y \in 1..9999
  /\ m \in 1..12
  /\ d >= 1 /\ d <= DaysInMonth(y, m)

\* The value None of path_to_date, as a date record no calendar date equals.
NoDate == [year |-> 0, month |-> 0, day |-> 0]

(***************************************************************************)
(* Path codec: path_to_date, date_to_path                                  *)
(***************************************************************************)

\* Path.name: the final component, empty for the root.
PathName(path) == IF path = << >> THEN << >> ELSE path[Len(path)]

\* path_to_date: only the length and the three numeric fields are examined;
\* the characters at positions 5 and 8 (the separators) are never read.
path_to_date(path) ==
  LET name == PathName(path) IN
  IF Len(name) # 10 THEN NoDate
  ELSE LET y == PyInt(SubSeq(name, 1, 4))
           m == PyInt(SubSeq(name, 6, 7))
           d == PyInt(SubSeq(name, 9, 10))
       IN  IF y.ok /\ m.ok /\ d.ok /\ ValidDate(y.val, m.val, d.val)
           THEN [year |-> y.val, month |-> m.val, day |-> d.val]
           ELSE NoDate

RECURSIVE Decimal(_)
Decimal(n) ==
  IF n < 10 THEN << DigitChars[n + 1] >>
  ELSE Append(Decimal(n \div 10), DigitChars[(n % 10) + 1])

Pad2(n) == IF n < 10 THEN << "0" >> \o Decimal(n) ELSE Decimal(n)

\* '{:%Y_%m_%d}'.format(date): strftime's %Y is the decimal year without
\* padding (glibc), %m and %d are two digits.
DateName(date) ==
  Decimal(date.year) \o << "_" >> \o Pad2(date.month) \o << "_" >> \o Pad2(date.day)

date_to_path(date, parent) == Append(parent, DateName(date))

(***************************************************************************)
(* Paths and the filesystem                                                *)
(***************************************************************************)

n_media == << "m", "e", "d", "i", "a" >>

n_otterback0 == << "o", "t", "t", "e", "r", "b", "a", "c", "k", "0" >>

n_otterback1 == << "o", "t", "t", "e", "r", "b", "a", "c", "k", "1" >>

n_full == << "f", "u", "l", "l" >>

n_mirror == << "m", "i", "r", "r", "o", "r" >>

n_weekly == << "w", "e", "e", "k", "l", "y" >>

n_monthly == << "m", "o", "n", "t", "h", "l", "y" >>

n_yearly == << "y", "e", "a", "r", "l", "y" >>

\* Module-level configuration of mirrorBackups.py.
SOURCE == << n_media, n_otterback0, n_full >>

DEST == << n_media, n_otterback1, n_mirror >>

SANDBOX == << n_media, n_otterback1, n_mirror >>

WEEKLY_PATH == Append(DEST, n_weekly)

MONTHLY_PATH == Append(DEST, n_monthly)

YEARLY_PATH == Append(DEST, n_yearly)

MAX_WEEKLIES == 5

MAX_MONTHLIES == 6

Front(p) == SubSeq(p, 1, Len(p) - 1)

IsPrefix(p, q) == Len(p) <= Len(q) /\ SubSeq(q, 1, Len(p)) = p

\* Path.parents: every proper ancestor of the path, the path itself excluded.
Parents(p) == { SubSeq(p, 1, k) : k \in 0..(Len(p) - 1) }

\* A filesystem is a function from the physical paths that exist to nodes
\* [kind, target]; kind is "dir", "file" or "link", target is the path a
\* symbolic link points to (empty otherwise).
DirNode == [kind |-> "dir", target |-> << >>]

FileNode == [kind |-> "file", target |-> << >>]

LinkNode(t) == [kind |-> "link", target |-> t]

\* os.path.realpath: symbolic links are followed component by component;
\* components that do not exist are kept as they are.
RECURSIVE Resolve(_, _, _)
Resolve(fsys, cur, rest) ==
  IF rest = << >> THEN cur
  ELSE LET cand == Append(cur, Head(rest)) IN
       IF cand \in DOMAIN fsys /\ fsys[cand].kind = "link"
       THEN Resolve(fsys, fsys[cand].target, Tail(rest))
       ELSE Resolve(fsys, cand, Tail(rest))

\* standardize_path: expanduser changes no absolute path; then realpath.
standardize_path(fsys, path) == Resolve(fsys, << >>, path)

\* The node a command names without following a final symbolic link (lstat).
Phys(fsys, path) ==
  IF path = << >> THEN << >>
  ELSE Append(Resolve(fsys, << >>, Front(path)), path[Len(path)])

\* Path.exists and Path.is_dir follow symbolic links.
PathExists(fsys, path) == Resolve(fsys, << >>, path) \in DOMAIN fsys

PathIsDir(fsys, path) ==
  LET r == Resolve(fsys, << >>, path) IN r \in DOMAIN fsys /\ fsys[r].kind = "dir"

\* Path.iterdir of an existing directory: its entries, as children of path.
IterDir(fsys, path) ==
  LET r == Resolve(fsys, << >>, path) IN
  { Append(path, n[Len(n)]) : n \in { q \in DOMAIN fsys : Len(q) = Len(r) + 1 /\ IsPrefix(r, q) } }

Subtree(fsys, node) == { n \in DOMAIN fsys : IsPrefix(node, n) }

(***************************************************************************)
(* The shell commands myshutil runs (_run): cp -pr, rm -rf, mkdir          *)
(*                                                                         *)
(* cmdOk is the environment's part of the outcome: FALSE is a failure the  *)
(* arguments do not decide (permissions, a full disk); the command then    *)
(* exits nonzero and the model leaves the filesystem as it was.            *)
(***************************************************************************)

Unchanged(fsys, success) == [ok |-> success, fs |-> fsys, touched |-> {}]

\* cp -pr source dest. An existing directory dest receives the copy under
\* source's own name, and an existing directory at the target is merged
\* into. Node by node: a directory never replaces a non-directory, nor the
\* reverse; a file replaces a file; a file whose target is a symbolic link to
\* a file is written through the link; a symbolic link of the source is
\* copied, not followed, and replaces a non-directory.
CpWritesThrough(fsys, n, t) ==
  /\ fsys[n].kind = "file"
  /\ t \in DOMAIN fsys
  /\ fsys[t].kind = "link"

CpClash(fsys, n, t) ==
  /\ t \in DOMAIN fsys
  /\ \/ (fsys[n].kind = "dir") # (fsys[t].kind = "dir")
     \/ /\ CpWritesThrough(fsys, n, t)
        /\ LET r == Resolve(fsys, << >>, t) IN
           r \notin DOMAIN fsys \/ fsys[r].kind # "file"

CpRun(fsys, source, dest, cmdOk) ==
  LET src == Phys(fsys, source)
      rdest == Resolve(fsys, << >>, dest)
      intoDir == rdest \in DOMAIN fsys /\ fsys[rdest].kind = "dir"
      target == IF intoDir /\ src # << >> THEN Append(rdest, src[Len(src)])
                ELSE Phys(fsys, dest)
      tree == Subtree(fsys, src)
      Reloc(n) == target \o SubSeq(n, Len(src) + 1, Len(n))
      parentOk == target # << >> /\ Front(target) \in DOMAIN fsys
                  /\ fsys[Front(target)].kind = "dir"
      through == { n \in tree : CpWritesThrough(fsys, n, Reloc(n)) }
      made == { Reloc(n) : n \in tree \ through }
  IN  IF \/ ~cmdOk
         \/ src = << >>
         \/ src \notin DOMAIN fsys
         \/ ~parentOk
         \/ IsPrefix(src, target)
         \/ \E n \in tree : CpClash(fsys, n, Reloc(n))
      THEN Unchanged(fsys, FALSE)
      ELSE [ok |-> TRUE,
            fs |-> [p \in (DOMAIN fsys) \cup made |->
                      IF p \in made
                      THEN fsys[CHOOSE n \in tree : Reloc(n) = p]
                      ELSE fsys[p]],
            touched |-> made \cup { Resolve(fsys, << >>, Reloc(n)) : n \in through }]

\* rm -rf path: removes the named node and all below it; a symbolic link is
\* removed, not followed; a missing path is a success.
RmRun(fsys, path, cmdOk) ==
  LET node == Phys(fsys, path)
      gone == Subtree(fsys, node)
  IN  IF ~cmdOk \/ node = << >> THEN Unchanged(fsys, FALSE)
      ELSE IF node \notin DOMAIN fsys THEN Unchanged(fsys, TRUE)
      ELSE [ok |-> TRUE,
            fs |-> [p \in (DOMAIN fsys) \ gone |-> fsys[p]],
            touched |-> gone]

\* mkdir path: fails when the path exists or its parent is no directory.
MkdirRun(fsys, path, cmdOk) ==
  LET node == Phys(fsys, path) IN
  IF \/ ~cmdOk
     \/ node = << >>
     \/ node \in DOMAIN fsys
     \/ Front(node) \notin DOMAIN fsys
     \/ fsys[Front(node)].kind # "dir"
  THEN Unchanged(fsys, FALSE)
  ELSE [ok |-> TRUE,
        fs |-> [p \in (DOMAIN fsys) \cup {node} |->
                  IF p = node THEN DirNode ELSE fsys[p]],
        touched |-> {node}]

(***************************************************************************)
(* myshutil: set_sandbox, is_sandboxed, copy, mkdir, rm                    *)
(***************************************************************************)

\* __SANDBOX: None until set_sandbox stores a path.
NoSandbox == [isNone |-> TRUE, path |-> << >>]

\* set_sandbox storing the path before it looks whether the path exists.
set_sandbox_stores(fsys, sbx, path) ==
  LET p == standardize_path(fsys, path) IN
  [raised |-> ~PathExists(fsys, p), sandbox |-> [isNone |-> FALSE, path |-> p]]

\* set_sandbox: FileNotFoundError (raised) leaves __SANDBOX as it was.
set_sandbox(fsys, sbx, path) ==
  LET p == standardize_path(fsys, path) IN
  IF ~PathExists(fsys, p) THEN [raised |-> TRUE, sandbox |-> sbx]
  ELSE [raised |-> FALSE, sandbox |-> [isNone |-> FALSE, path |-> p]]

\* is_sandboxed with the path itself among the paths compared.
is_sandboxed_self(fsys, sbx, path) ==
  LET p == standardize_path(fsys, path) IN
  \E q \in Parents(p) \cup {p} : ~sbx.isNone /\ q = sbx.path

\* is_sandboxed: some proper ancestor of the standardized path is __SANDBOX.
is_sandboxed(fsys, sbx, path) ==
  LET p == standardize_path(fsys, path) IN
  \E q \in Parents(p) : ~sbx.isNone /\ q = sbx.path

\* What a call leaves behind: ret is the value returned, ran tells whether
\* the shell command was run, raised whether the call ended in an exception.
Refused(fsys) ==
  [ret |-> FALSE, ran |-> FALSE, raised |-> FALSE, fs |-> fsys, touched |-> {}]

Ran(r, exc) ==
  [ret |-> r.ok /\ ~exc, ran |-> TRUE, raised |-> exc, fs |-> r.fs, touched |-> r.touched]

copy(fsys, sbx, source, dest, sandbox, cmdOk) ==
  IF sandbox /\ ~is_sandboxed(fsys, sbx, dest) THEN Refused(fsys)
  ELSE Ran(CpRun(fsys, source, dest, cmdOk), FALSE)

\* mkdir: on a nonzero status line 111 calls logg_err, a name the module
\* does not define, so the call ends in NameError instead of returning False.
mkdir(fsys, sbx, path, sandbox, cmdOk) ==
  IF sandbox /\ ~is_sandboxed(fsys, sbx, path) THEN Refused(fsys)
  ELSE LET r == MkdirRun(fsys, path, cmdOk) IN Ran(r, ~r.ok)

\* rm without its sandbox check.
rm_unchecked(fsys, sbx, path, sandbox, cmdOk) == Ran(RmRun(fsys, path, cmdOk), FALSE)

rm(fsys, sbx, path, sandbox, cmdOk) ==
  IF sandbox /\ ~is_sandboxed(fsys, sbx, path) THEN Refused(fsys)
  ELSE Ran(RmRun(fsys, path, cmdOk), FALSE)

(***************************************************************************)
(* mirrorBackups: Backup, scan_existing                                    *)
(***************************************************************************)

\* Backup(path, date): the date is decoded from the path when not given.
BackupOfPath(path) == [path |-> path, date |-> path_to_date(path)]

\* Backup(date=date, parent=parent): the path is encoded from the date.
BackupOfDate(date, parent) == [path |-> date_to_path(date, parent), date |-> date]

\* list.sort(key=lambda x: x.path) over entries of one directory: ascending
\* by path, which for siblings is ascending by name as a string.
RECURSIVE SortByPath(_)
SortByPath(S) ==
  IF S = {} THEN << >>
  ELSE LET least == CHOOSE b \in S :
                      \A c \in S \ {b} : StrLess(PathName(b.path), PathName(c.path))
       IN  << least >> \o SortByPath(S \ {least})

\* scan_existing without its is_dir test: every entry whose name decodes.
scan_existing_any(fsys, path) ==
  SortByPath({ BackupOfPath(d) :
               d \in { e \in IterDir(fsys, path) : path_to_date(e) # NoDate } })

\* scan_existing of a directory that exists: subdirectories whose name
\* decodes to a date, sorted by path.
scan_existing(fsys, path) ==
  SortByPath({ BackupOfPath(d) :
               d \in { e \in IterDir(fsys, path) :
                       PathIsDir(fsys, e) /\ path_to_date(e) # NoDate } })

\* The month loop without its search: always the oldest entry.
FirstOfMonth_oldest(backups, prev) == backups[1]

\* The loops of lines 192-199 and 215-221: the first entry whose month (year)
\* equals that of the newest entry; the list's first entry if there is none.
FirstOfMonth(backups, prev) ==
  IF \E i \in 1..Len(backups) : backups[i].date.month = prev.date.month
  THEN backups[CHOOSE i \in 1..Len(backups) :
                 /\ backups[i].date.month = prev.date.month
                 /\ \A j \in 1..(i - 1) : backups[j].date.month # prev.date.month]
  ELSE backups[1]

FirstOfYear(backups, prev) ==
  IF \E i \in 1..Len(backups) : backups[i].date.year = prev.date.year
  THEN backups[CHOOSE i \in 1..Len(backups) :
                 /\ backups[i].date.year = prev.date.year
                 /\ \A j \in 1..(i - 1) : backups[j].date.year # prev.date.year]
  ELSE backups[1]

\* str() of a Backup object, which line 224 hands to cp as its source: the
\* default "<... object at 0x...>" text, a name no file bears.
n_backup_object == << "<", "b", "a", "c", "k", "u", "p", " ", "o", "b", "j", "e", "c", "t", ">" >>

BackupRepr(b) == << n_backup_object >>

(***************************************************************************)
(* The states a run starts from                                            *)
(***************************************************************************)

\* How many of DateList's dates the snapshots and the current date are drawn from.
NumDates == 7

Date(y, m, d) == [year |-> y, month |-> m, day |-> d]

DateList ==
  << Date(2023, 12, 24), Date(2023, 12, 31), Date(2024, 1, 7), Date(2024, 1, 14),
     Date(2024, 1, 21), Date(2024, 2, 4), Date(2025, 2, 2), Date(2025, 3, 2),
     Date(2025, 3, 9) >>

BoundedDates == IF NumDates < Len(DateList) THEN NumDates ELSE Len(DateList)

Dates == { DateList[i] : i \in 1..BoundedDates }

\* A directory outside the mirror root, for symbolic links to point to.
OUTSIDE == << n_media, n_otterback0 >>

n_data == << "d", "a", "t", "a" >>

\* A file outside the mirror root.
OUTSIDE_FILE == Append(OUTSIDE, n_data)

n_notadate == << "n", "o", "t", "a", "d", "a", "t", "e" >>

\* 2024-01-14: the date DateList[4] with "-" where the codec writes "_".
n_dashed == << "2", "0", "2", "4", "-", "0", "1", "-", "1", "4" >>

BaseFs ==
  [p \in { << >>, << n_media >>, OUTSIDE, OUTSIDE_FILE, SOURCE, << n_media, n_otterback1 >>,
           DEST, WEEKLY_PATH, MONTHLY_PATH, YEARLY_PATH } |->
     IF p = OUTSIDE_FILE THEN FileNode ELSE DirNode]

\* fsys with node at path, replacing what is there.
WithNode(fsys, path, node) ==
  [p \in (DOMAIN fsys) \cup {path} |-> IF p = path THEN node ELSE fsys[p]]

Without(fsys, path) == [p \in (DOMAIN fsys) \ Subtree(fsys, path) |-> fsys[p]]

\* The tiers holding one directory per date of W, M and Y.
TierFs(W, M, Y) ==
  LET snaps == { date_to_path(d, WEEKLY_PATH) : d \in W }
               \cup { date_to_path(d, MONTHLY_PATH) : d \in M }
               \cup { date_to_path(d, YEARLY_PATH) : d \in Y }
  IN  [p \in (DOMAIN BaseFs) \cup snaps |-> IF p \in snaps THEN DirNode ELSE BaseFs[p]]

\* Other things a mirror tree may hold when a run starts.
Oddities ==
  { "none", "junk", "file", "dashed", "snaplink", "tierlink", "monthlink", "innerlink",
    "nomonthly", "noroot" }

Odd(fsys, x) ==
  CASE x = "junk" ->
         WithNode(WithNode(fsys, Append(WEEKLY_PATH, n_notadate), DirNode),
                  Append(MONTHLY_PATH, n_notadate), DirNode)
    [] x = "file" -> WithNode(fsys, date_to_path(DateList[3], WEEKLY_PATH), FileNode)
    [] x = "dashed" -> WithNode(fsys, Append(WEEKLY_PATH, n_dashed), DirNode)
    [] x = "snaplink" ->
         WithNode(fsys, date_to_path(DateList[1], WEEKLY_PATH), LinkNode(OUTSIDE))
    [] x = "tierlink" -> WithNode(Without(fsys, WEEKLY_PATH), WEEKLY_PATH, LinkNode(OUTSIDE))
    [] x = "monthlink" ->
         WithNode(fsys, date_to_path(DateList[3], MONTHLY_PATH), LinkNode(OUTSIDE))
    [] x = "innerlink" ->
         LET w == date_to_path(DateList[3], WEEKLY_PATH)
             m == date_to_path(DateList[3], MONTHLY_PATH)
         IN  WithNode(WithNode(WithNode(WithNode(fsys, w, DirNode),
                                        Append(w, n_data), FileNode),
                               m, DirNode),
                      Append(m, n_data), LinkNode(OUTSIDE_FILE))
    [] x = "nomonthly" -> Without(fsys, MONTHLY_PATH)
    [] x = "noroot" -> Without(fsys, DEST)
    [] OTHER -> fsys

\* The monthly tier starts with the first k dates, the yearly tier with none
\* or the first date.
MonthlyStarts == { { DateList[i] : i \in 1..k } : k \in 0..BoundedDates }

YearlyStarts == { {}, { DateList[1] } }

StartFs ==
  { TierFs(W, M, Y) : W \in SUBSET Dates, M \in MonthlyStarts, Y \in YearlyStarts }
  \cup { Odd(TierFs(W, {}, {}), x) : W \in SUBSET Dates, x \in Oddities }

(***************************************************************************)
(* MirrorBackup: one run of the script                                     *)
(***************************************************************************)

VARIABLES
  fs,            \* the filesystem
  fs0,           \* the filesystem when the run started
  sandbox,       \* myshutil.__SANDBOX
  weekly_path,   \* the globals WEEKLY_PATH, MONTHLY_PATH, YEARLY_PATH
  monthly_path,
  yearly_path,
  weeklies,      \* the inventories of lines 171-173
  monthlies,
  yearlies,
  scanned,       \* the weekly and monthly inventories as scanned, kept for reference
  todaysBackup,  \* line 176
  pc,            \* where the run is
  status,        \* the exit status once the run has ended, -1 before
  ops,           \* the myshutil calls the run has made, in order
  touched        \* the physical paths the run's commands created or removed

vars ==
  << fs, fs0, sandbox, weekly_path, monthly_path, yearly_path, weeklies, monthlies,
     yearlies, scanned, todaysBackup, pc, status, ops, touched >>

NoBackup == [path |-> << >>, date |-> NoDate]

Init ==
  /\ fs \in StartFs
  /\ fs0 = fs
  /\ sandbox = NoSandbox
  /\ weekly_path = WEEKLY_PATH
  /\ monthly_path = MONTHLY_PATH
  /\ yearly_path = YEARLY_PATH
  /\ weeklies = << >>
  /\ monthlies = << >>
  /\ yearlies = << >>
  /\ scanned = [weekly |-> << >>, monthly |-> << >>]
  /\ todaysBackup = NoBackup
  /\ pc = "start"
  /\ status = -1
  /\ ops = << >>
  /\ touched = {}

\* sys.exit(1), and an exception nothing catches, end the run with status 1.
Exit(where) == pc' = where /\ status' = 1

\* Lines 162-168: set the sandbox, standardize the tier paths.
Initialize ==
  /\ pc = "start"
  /\ LET r == set_sandbox(fs, sandbox, SANDBOX) IN
     IF r.raised
     THEN /\ Exit("crashed")
          /\ UNCHANGED << sandbox, weekly_path, monthly_path, yearly_path >>
     ELSE /\ sandbox' = r.sandbox
          /\ weekly_path' = standardize_path(fs, WEEKLY_PATH)
          /\ monthly_path' = standardize_path(fs, MONTHLY_PATH)
          /\ yearly_path' = standardize_path(fs, YEARLY_PATH)
          /\ pc' = "scan"
          /\ UNCHANGED status
  /\ UNCHANGED << fs, fs0, weeklies, monthlies, yearlies, scanned, todaysBackup, ops,
                  touched >>

\* Lines 170-173: iterdir raises when a tier path is no directory.
Scan ==
  /\ pc = "scan"
  /\ IF /\ PathIsDir(fs, weekly_path)
        /\ PathIsDir(fs, monthly_path)
        /\ PathIsDir(fs, yearly_path)
     THEN /\ weeklies' = scan_existing(fs, weekly_path)
          /\ monthlies' = scan_existing(fs, monthly_path)
          /\ yearlies' = scan_existing(fs, yearly_path)
          /\ scanned' = [weekly |-> weeklies', monthly |-> monthlies']
          /\ pc' = "backup"
          /\ UNCHANGED status
     ELSE /\ Exit("crashed")
          /\ UNCHANGED << weeklies, monthlies, yearlies, scanned >>
  /\ UNCHANGED << fs, fs0, sandbox, weekly_path, monthly_path, yearly_path,
                  todaysBackup, ops, touched >>

\* A call whose failure does not end the run.
Call_resumes(op, tier, source, dest, r, next) ==
  /\ fs' = r.fs
  /\ ops' = Append(ops, [op |-> op, tier |-> tier, source |-> source, dest |-> dest,
                         sandbox |-> TRUE, ret |-> r.ret, ran |-> r.ran,
                         raised |-> r.raised])
  /\ touched' = touched \cup r.touched
  /\ pc' = next
  /\ UNCHANGED status

\* A myshutil call and what follows it: the filesystem the call leaves, the
\* call appended to the log, and sys.exit(1) when it returned False.
Call(op, tier, source, dest, r, next) ==
  /\ fs' = r.fs
  /\ ops' = Append(ops, [op |-> op, tier |-> tier, source |-> source, dest |-> dest,
                         sandbox |-> TRUE, ret |-> r.ret, ran |-> r.ran,
                         raised |-> r.raised])
  /\ touched' = touched \cup r.touched
  /\ IF r.ret THEN pc' = next /\ UNCHANGED status ELSE Exit("exited")

\* Lines 175-181: today's weekly backup.
CreateWeekly ==
  /\ pc = "backup"
  /\ \E today \in Dates, cmdOk \in BOOLEAN :
       LET tb == BackupOfDate(today, weekly_path) IN
       /\ todaysBackup' = tb
       /\ Call("copy", "weekly", SOURCE, tb.path,
               copy(fs, sandbox, SOURCE, tb.path, TRUE, cmdOk), "month")
  /\ UNCHANGED << fs0, scanned, sandbox, weekly_path, monthly_path, yearly_path, weeklies,
                  monthlies, yearlies >>

\* The month loop without its break: every entry of the newest entry's month
\* is copied, here the first and the newest.
PromoteMonthly_each ==
  /\ pc = "month"
  /\ IF Len(weeklies) > 0
        /\ weeklies[Len(weeklies)].date.month # todaysBackup.date.month
     THEN LET first == FirstOfMonth(weeklies, weeklies[Len(weeklies)])
              newest == weeklies[Len(weeklies)]
              r1 == copy(fs, sandbox, first.path, monthly_path, TRUE, TRUE)
              r2 == copy(r1.fs, sandbox, newest.path, monthly_path, TRUE, TRUE)
              Entry(b, r) == [op |-> "copy", tier |-> "monthly", source |-> b.path,
                              dest |-> monthly_path, sandbox |-> TRUE, ret |-> r.ret,
                              ran |-> r.ran, raised |-> r.raised]
          IN  /\ fs' = r2.fs
              /\ ops' = ops \o << Entry(first, r1), Entry(newest, r2) >>
              /\ touched' = touched \cup r1.touched \cup r2.touched
              /\ IF r1.ret /\ r2.ret THEN pc' = "year" /\ UNCHANGED status
                 ELSE Exit("exited")
     ELSE pc' = "year" /\ UNCHANGED << fs, ops, touched, status >>
  /\ UNCHANGED << fs0, scanned, sandbox, weekly_path, monthly_path, yearly_path, weeklies,
                  monthlies, yearlies, todaysBackup >>

\* Lines 183-204: the month check and the copy into the monthly tier.
PromoteMonthly ==
  /\ pc = "month"
  /\ IF Len(weeklies) > 0
        /\ weeklies[Len(weeklies)].date.month # todaysBackup.date.month
     THEN \E cmdOk \in BOOLEAN :
            LET backupWeek == FirstOfMonth(weeklies, weeklies[Len(weeklies)]) IN
            Call("copy", "monthly", backupWeek.path, monthly_path,
                 copy(fs, sandbox, backupWeek.path, monthly_path, TRUE, cmdOk), "year")
     ELSE pc' = "year" /\ UNCHANGED << fs, ops, touched, status >>
  /\ UNCHANGED << fs0, scanned, sandbox, weekly_path, monthly_path, yearly_path, weeklies,
                  monthlies, yearlies, todaysBackup >>

\* Lines 206-227: the year check and the copy into the yearly tier; line 224
\* passes the Backup object, not its path, as the source.
PromoteYearly ==
  /\ pc = "year"
  /\ IF Len(monthlies) > 0
        /\ monthlies[Len(monthlies)].date.year # todaysBackup.date.year
     THEN \E cmdOk \in BOOLEAN :
            LET backupMonth == FirstOfYear(monthlies, monthlies[Len(monthlies)]) IN
            Call("copy", "yearly", BackupRepr(backupMonth), yearly_path,
                 copy(fs, sandbox, BackupRepr(backupMonth), yearly_path, TRUE, cmdOk),
                 "pruneW")
     ELSE pc' = "pruneW" /\ UNCHANGED << fs, ops, touched, status >>
  /\ UNCHANGED << fs0, scanned, sandbox, weekly_path, monthly_path, yearly_path, weeklies,
                  monthlies, yearlies, todaysBackup >>

\* The weekly loop popping the newest entry, pop() for pop(0).
PruneWeekly_newest ==
  /\ pc = "pruneW"
  /\ IF Len(weeklies) > MAX_WEEKLIES - 1
     THEN \E cmdOk \in BOOLEAN :
            LET excess_week == weeklies[Len(weeklies)] IN
            /\ weeklies' = SubSeq(weeklies, 1, Len(weeklies) - 1)
            /\ Call("rm", "weekly", << >>, excess_week.path,
                    rm(fs, sandbox, excess_week.path, TRUE, cmdOk), "pruneW")
     ELSE pc' = "pruneM" /\ UNCHANGED << fs, ops, touched, status, weeklies >>
  /\ UNCHANGED << fs0, scanned, sandbox, weekly_path, monthly_path, yearly_path, monthlies,
                  yearlies, todaysBackup >>

\* Lines 229-236: one turn of the loop that prunes the weeklies.
PruneWeekly ==
  /\ pc = "pruneW"
  /\ IF Len(weeklies) > MAX_WEEKLIES - 1
     THEN \E cmdOk \in BOOLEAN :
            LET excess_week == Head(weeklies) IN
            /\ weeklies' = Tail(weeklies)
            /\ Call("rm", "weekly", << >>, excess_week.path,
                    rm(fs, sandbox, excess_week.path, TRUE, cmdOk), "pruneW")
     ELSE pc' = "pruneM" /\ UNCHANGED << fs, ops, touched, status, weeklies >>
  /\ UNCHANGED << fs0, scanned, sandbox, weekly_path, monthly_path, yearly_path, monthlies,
                  yearlies, todaysBackup >>

\* The monthly loop followed by the same loop over the yearly tier, pruned
\* to nothing.
PruneMonthly_yearly ==
  /\ pc = "pruneM"
  /\ IF Len(monthlies) > MAX_MONTHLIES - 1
     THEN \E cmdOk \in BOOLEAN :
            LET excess_month == Head(monthlies) IN
            /\ monthlies' = Tail(monthlies)
            /\ Call("rm", "monthly", << >>, excess_month.path,
                    rm(fs, sandbox, excess_month.path, TRUE, cmdOk), "pruneM")
            /\ UNCHANGED yearlies
     ELSE IF Len(yearlies) > 0
     THEN \E cmdOk \in BOOLEAN :
            LET excess_year == Head(yearlies) IN
            /\ yearlies' = Tail(yearlies)
            /\ Call("rm", "yearly", << >>, excess_year.path,
                    rm(fs, sandbox, excess_year.path, TRUE, cmdOk), "pruneM")
            /\ UNCHANGED monthlies
     ELSE pc' = "done" /\ status' = 0
          /\ UNCHANGED << fs, ops, touched, monthlies, yearlies >>
  /\ UNCHANGED << fs0, scanned, sandbox, weekly_path, monthly_path, yearly_path, weeklies,
                  todaysBackup >>

\* Lines 238-247: one turn of the loop that prunes the monthlies; the run
\* returns (status 0) when the loop ends.
PruneMonthly ==
  /\ pc = "pruneM"
  /\ IF Len(monthlies) > MAX_MONTHLIES - 1
     THEN \E cmdOk \in BOOLEAN :
            LET excess_month == Head(monthlies) IN
            /\ monthlies' = Tail(monthlies)
            /\ Call("rm", "monthly", << >>, excess_month.path,
                    rm(fs, sandbox, excess_month.path, TRUE, cmdOk), "pruneM")
     ELSE pc' = "done" /\ status' = 0 /\ UNCHANGED << fs, ops, touched, monthlies >>
  /\ UNCHANGED << fs0, scanned, sandbox, weekly_path, monthly_path, yearly_path, weeklies,
                  yearlies, todaysBackup >>

Next ==
  \/ Initialize
  \/ Scan
  \/ CreateWeekly
  \/ PromoteMonthly
  \/ PromoteYearly
  \/ PruneWeekly
  \/ PruneMonthly

Spec == Init /\ [][Next]_vars

(***************************************************************************)
(* myshutil called directly: any boundary, any path                        *)
(***************************************************************************)

\* How many calls of myshutil a behaviour of ShSpec makes.
MaxCalls == 1

\* The boundary itself, a child, nested children (one of them a symbolic
\* link to OUTSIDE in some start states, one that does not exist), an
\* ancestor, a sibling, and paths on the other disk.
ProbePaths ==
  { SANDBOX, WEEKLY_PATH, date_to_path(DateList[1], WEEKLY_PATH),
    date_to_path(DateList[2], MONTHLY_PATH), << n_media, n_otterback1 >>,
    << n_media, n_otterback1, n_full >>, OUTSIDE, SOURCE }

ProbeSources == { SOURCE, date_to_path(DateList[1], WEEKLY_PATH) }

ShStartFs ==
  { TierFs({DateList[1]}, {}, {}), Odd(TierFs({}, {}, {}), "snaplink") }

\* __SANDBOX is None, or what an earlier set_sandbox stored.
ShInit ==
  /\ fs \in ShStartFs
  /\ fs0 = fs
  /\ sandbox \in {NoSandbox}
                 \cup { set_sandbox(fs, NoSandbox, p).sandbox :
                        p \in { q \in ProbePaths : PathExists(fs, q) } }
  /\ weekly_path = WEEKLY_PATH
  /\ monthly_path = MONTHLY_PATH
  /\ yearly_path = YEARLY_PATH
  /\ weeklies = << >>
  /\ monthlies = << >>
  /\ yearlies = << >>
  /\ scanned = [weekly |-> << >>, monthly |-> << >>]
  /\ todaysBackup = NoBackup
  /\ pc = "lib"
  /\ status = -1
  /\ ops = << >>
  /\ touched = {}

\* A direct call and what it leaves: fs0 keeps the filesystem the call found,
\* the log entry's boundary the value of __SANDBOX it found.
ShCall(op, source, dest, flag, r) ==
  /\ pc = "lib"
  /\ Len(ops) < MaxCalls
  /\ fs0' = fs
  /\ fs' = r.fs
  /\ ops' = Append(ops, [op |-> op, tier |-> "none", source |-> source, dest |-> dest,
                         sandbox |-> flag, ret |-> r.ret, ran |-> r.ran,
                         raised |-> r.raised, boundary |-> sandbox])
  /\ touched' = touched \cup r.touched
  /\ UNCHANGED << weekly_path, monthly_path, yearly_path, weeklies, monthlies,
                  yearlies, scanned, todaysBackup, pc, status >>

ShSetSandbox ==
  \E p \in ProbePaths :
    LET r == set_sandbox(fs, sandbox, p) IN
    /\ sandbox' = r.sandbox
    /\ ShCall("set_sandbox", << >>, p, FALSE,
              [ret |-> ~r.raised, ran |-> FALSE, raised |-> r.raised, fs |-> fs,
               touched |-> {}])

ShCopy ==
  \E source \in ProbeSources, dest \in ProbePaths, flag \in BOOLEAN, cmdOk \in BOOLEAN :
    /\ ShCall("copy", source, dest, flag, copy(fs, sandbox, source, dest, flag, cmdOk))
    /\ UNCHANGED sandbox

ShMkdir ==
  \E path \in ProbePaths, flag \in BOOLEAN, cmdOk \in BOOLEAN :
    /\ ShCall("mkdir", << >>, path, flag, mkdir(fs, sandbox, path, flag, cmdOk))
    /\ UNCHANGED sandbox

ShRm ==
  \E path \in ProbePaths, flag \in BOOLEAN, cmdOk \in BOOLEAN :
    /\ ShCall("rm", << >>, path, flag, rm(fs, sandbox, path, flag, cmdOk))
    /\ UNCHANGED sandbox

ShIsSandboxed ==
  \E path \in ProbePaths :
    /\ ShCall("is_sandboxed", << >>, path, FALSE,
              [ret |-> is_sandboxed(fs, sandbox, path), ran |-> FALSE, raised |-> FALSE,
               fs |-> fs, touched |-> {}])
    /\ UNCHANGED sandbox

ShNext ==
  \/ ShSetSandbox
  \/ ShCopy
  \/ ShMkdir
  \/ ShRm
  \/ ShIsSandboxed

ShSpec == ShInit /\ [][ShNext]_vars

(***************************************************************************)
(* Either use of the program: the script run, or the library called        *)
(***************************************************************************)

ProgramInit == Init \/ ShInit

ProgramNext == Next \/ ShNext

ProgramSpec == ProgramInit /\ [][ProgramNext]_vars

(***************************************************************************)
(* The codec called directly: any name, any date                           *)
(***************************************************************************)

\* The fields directory names are made of: well-formed ones, impossible
\* values, and text int() accepts or rejects (sign, blank, underscore,
\* letter).
YearFields ==
  { << "2", "0", "2", "4" >>, << "2", "0", "2", "3" >>, << "0", "0", "0", "0" >>,
    << "+", "9", "9", "9" >>, << " ", "9", "9", "9" >>, << "1", "_", "0", "0" >>,
    << "2", "0", "a", "4" >>, << "-", "0", "0", "1" >> }

MonthFields ==
  { << "0", "1" >>, << "0", "2" >>, << "1", "2" >>, << "1", "3" >>, << "0", "0" >>,
    << "+", "1" >>, << " ", "2" >>, << "1", "_" >>, << "0", "a" >> }

DayFields ==
  { << "0", "7" >>, << "2", "9" >>, << "3", "0" >>, << "3", "1" >>, << "3", "2" >>,
    << "0", "0" >>, << " ", "7" >>, << "+", "7" >>, << "a", "1" >> }

Separators == { "_", "-", "x" }

\* Names of 10 characters, and names of other lengths.
CodecNames ==
  { y \o << s1 >> \o m \o << s2 >> \o d :
      y \in YearFields, s1 \in Separators, m \in MonthFields, s2 \in Separators,
      d \in DayFields }
  \cup { << >>, n_notadate,
         << "2", "0", "2", "4", "_", "1", "_", "0", "7" >>,
         << "2", "0", "2", "4", "_", "0", "1", "_", "0", "7", "0" >> }

\* Dates datetime accepts, from its first year to its last.
CodecDates ==
  { date \in { Date(y, m, d) : y \in {1, 999, 1000, 2024, 9999}, m \in {1, 2, 12},
                               d \in {1, 9, 10, 29, 31} } :
      ValidDate(date.year, date.month, date.day) }

CodecParents == { WEEKLY_PATH, MONTHLY_PATH, << n_media >> }

CodecInit ==
  /\ fs = BaseFs
  /\ fs0 = fs
  /\ sandbox = NoSandbox
  /\ weekly_path = WEEKLY_PATH
  /\ monthly_path = MONTHLY_PATH
  /\ yearly_path = YEARLY_PATH
  /\ weeklies = << >>
  /\ monthlies = << >>
  /\ yearlies = << >>
  /\ scanned = [weekly |-> << >>, monthly |-> << >>]
  /\ todaysBackup = NoBackup
  /\ pc = "codec"
  /\ status = -1
  /\ ops = << >>
  /\ touched = {}

\* A call of the codec: its path and its date, argument and result, logged.
CodecCall(op, path, date, next) ==
  /\ todaysBackup' = [path |-> path, date |-> date]
  /\ ops' = Append(ops, [op |-> op, path |-> path, date |-> date])
  /\ pc' = next
  /\ UNCHANGED << fs, fs0, sandbox, weekly_path, monthly_path, yearly_path, weeklies,
                  monthlies, yearlies, scanned, status, touched >>

\* path_to_date of a path of any name.
DecodeName ==
  /\ pc = "codec"
  /\ \E parent \in CodecParents, name \in CodecNames :
       LET path == Append(parent, name) IN
       CodecCall("path_to_date", path, path_to_date(path), "decoded")

\* date_to_path of a date.
EncodeDate ==
  /\ pc = "codec"
  /\ \E parent \in CodecParents, date \in CodecDates :
       CodecCall("date_to_path", date_to_path(date, parent), date, "encoded")

\* path_to_date of the path date_to_path returned.
DecodeEncoded ==
  /\ pc = "encoded"
  /\ CodecCall("path_to_date", todaysBackup.path, path_to_date(todaysBackup.path),
               "decoded")

CodecNext ==
  \/ DecodeName
  \/ EncodeDate
  \/ DecodeEncoded

CodecSpec == CodecInit /\ [][CodecNext]_vars

(***************************************************************************)
(* What the properties below speak of                                      *)
(***************************************************************************)

Last(q) == q[Len(q)]

DateLess(a, b) ==
  \/ a.year < b.year
  \/ a.year = b.year /\ a.month < b.month
  \/ a.year = b.year /\ a.month = b.month /\ a.day < b.day

\* Strictly inside the mirror root.
InsideMirror(p) == Len(p) > Len(SANDBOX) /\ IsPrefix(SANDBOX, p)

\* The run has scanned the tiers.
Scanned == pc \notin {"start", "scan", "crashed"}

\* The inventories scanned when the run started.
W0 == scanned.weekly

M0 == scanned.monthly

\* The names of the valid snapshots a tier directory holds.
ValidNames(fsys, tier) ==
  { PathName(e) : e \in { d \in IterDir(fsys, tier) :
                          PathIsDir(fsys, d) /\ path_to_date(d) # NoDate } }

\* The calls of the run's log that copy into, or remove from, a tier.
OpsOf(op, tier) == { i \in 1..Len(ops) : ops[i].op = op /\ ops[i].tier = tier }

StrictlyAscending(inv) ==
  \A i \in 1..(Len(inv) - 1) : DateLess(inv[i].date, inv[i + 1].date)

\* The last k entries of an inventory, all of them when it has k or fewer.
Newest(inv, k) == IF Len(inv) <= k THEN inv ELSE SubSeq(inv, Len(inv) - k + 1, Len(inv))

(***************************************************************************)
(* C1. Every path a run's commands create, overwrite or remove lies         *)
(* strictly inside the mirror root.                                        *)
(***************************************************************************)
C1_Confined == \A p \in touched : InsideMirror(p)

\* Within the boundary: the boundary is set and is a proper ancestor of the
\* path's canonical form.
WithinBoundary(fsys, sbx, path) ==
  LET r == Resolve(fsys, << >>, path) IN
  /\ ~sbx.isNone
  /\ Len(r) > Len(sbx.path)
  /\ SubSeq(r, 1, Len(sbx.path)) = sbx.path

\* The latest call was a checked copy, rm or mkdir of a path not within the
\* boundary.
GuardedOutside ==
  /\ ops # << >>
  /\ Last(ops).op \in {"copy", "rm", "mkdir"}
  /\ Last(ops).sandbox
  /\ ~WithinBoundary(fs0, sandbox, Last(ops).dest)

(***************************************************************************)
(* C2. copy, rm and mkdir called with the sandbox check on and a path that *)
(* is not within the boundary (no boundary set, the boundary itself, or a  *)
(* path whose canonical form the boundary is no proper ancestor of) return *)
(* False, run no command and leave the filesystem as it was.               *)
(***************************************************************************)
C2_RefusedOutside ==
  GuardedOutside =>
    /\ Last(ops).ret = FALSE
    /\ ~Last(ops).ran
    /\ ~Last(ops).raised
    /\ fs = fs0

\* rm of an existing directory outside a boundary that is set.
C2_Witness ==
  /\ GuardedOutside
  /\ ~sandbox.isNone
  /\ Last(ops).op = "rm"
  /\ Last(ops).dest \in DOMAIN fs
  /\ fs[Last(ops).dest].kind = "dir"
  /\ Last(ops).ret = FALSE

(***************************************************************************)
(* C3. A copy or removal that fails is the last call of the run, and the   *)
(* run ends there with status 1.                                           *)
(***************************************************************************)
C3_AbortOnFailure ==
  \A i \in 1..Len(ops) :
    ~ops[i].ret => i = Len(ops) /\ pc = "exited" /\ status = 1

\* A weekly removal failed with monthly pruning still to do.
C3_Witness ==
  /\ pc = "exited"
  /\ Len(ops) >= 2
  /\ Last(ops).op = "rm" /\ Last(ops).tier = "weekly" /\ ~Last(ops).ret
  /\ Len(weeklies) > MAX_WEEKLIES - 1
  /\ Len(monthlies) > MAX_MONTHLIES - 1

(***************************************************************************)
(* C4. On a year boundary the entry copied into the yearly tier is the     *)
(* oldest entry of the scanned monthly inventory whose year is that of its *)
(* newest entry; a copy that succeeds leaves a snapshot of that name in    *)
(* the yearly tier, and the run goes on to pruning.                        *)
(***************************************************************************)
C4_YearPromotion ==
  \A i \in OpsOf("copy", "yearly") :
    LET k == CHOOSE j \in 1..Len(M0) :
               /\ M0[j].date.year = Last(M0).date.year
               /\ \A h \in 1..(j - 1) : M0[h].date.year # Last(M0).date.year
    IN  /\ ops[i].source = M0[k].path
        /\ ops[i].ret => /\ PathName(M0[k].path) \in ValidNames(fs, yearly_path)
                         /\ pc \in {"pruneW", "pruneM", "done", "exited"}

(***************************************************************************)
(* C5. A copy into the monthly tier is made exactly when the scanned       *)
(* weekly inventory W is non-empty and the month of its newest entry is    *)
(* not today's month, and its source is the first entry of W, oldest to    *)
(* newest, whose month is that of W's newest entry.                        *)
(***************************************************************************)
C5_MonthSelection ==
  /\ \A i \in OpsOf("copy", "monthly") :
       /\ W0 # << >>
       /\ Last(W0).date.month # todaysBackup.date.month
       /\ \E k \in 1..Len(W0) :
            /\ ops[i].source = W0[k].path
            /\ W0[k].date.month = Last(W0).date.month
            /\ \A j \in 1..(k - 1) : W0[j].date.month # Last(W0).date.month
  /\ pc \in {"year", "pruneW", "pruneM", "done"}
       => (OpsOf("copy", "monthly") # {}
             <=> W0 # << >> /\ Last(W0).date.month # todaysBackup.date.month)

\* The entry promoted was not the oldest of the inventory.
C5_Witness ==
  /\ pc = "done"
  /\ \E i \in OpsOf("copy", "monthly") : ops[i].ret /\ ops[i].source # W0[1].path

(***************************************************************************)
(* C6. A successful run that starts with MAX_MONTHLIES valid monthly       *)
(* snapshots ends with MAX_MONTHLIES valid monthly snapshots.              *)
(***************************************************************************)
C6_MonthlySteadyState ==
  pc = "done" /\ Len(M0) = MAX_MONTHLIES
    => Cardinality(ValidNames(fs, monthly_path)) = MAX_MONTHLIES

(***************************************************************************)
(* C7. A successful run that starts with at least MAX_WEEKLIES - 1 valid   *)
(* weekly snapshots ends with exactly MAX_WEEKLIES of them, today's and    *)
(* the MAX_WEEKLIES - 1 newest it started with; no successful run ends     *)
(* with more than MAX_WEEKLIES.                                            *)
(***************************************************************************)
C7_WeeklySteadyState ==
  pc = "done" =>
    /\ Cardinality(ValidNames(fs, weekly_path)) <= MAX_WEEKLIES
    /\ Len(W0) >= MAX_WEEKLIES - 1 =>
         /\ Cardinality(ValidNames(fs, weekly_path)) = MAX_WEEKLIES
         /\ ValidNames(fs, weekly_path) =
              {PathName(todaysBackup.path)}
              \cup { PathName(Newest(W0, MAX_WEEKLIES - 1)[i].path) :
                     i \in 1..(MAX_WEEKLIES - 1) }

\* The removals logged for a tier took a prefix of inventory inv0 in order
\* and left inv; once finished, inv is the k newest of inv0 and every entry
\* removed is older than every entry kept.
PrunedOldestFirst(inv0, inv, tier, k, finished) ==
  LET calls == OpsOf("rm", tier)
      n == Cardinality(calls)
  IN  /\ n <= Len(inv0)
      /\ inv = SubSeq(inv0, n + 1, Len(inv0))
      /\ \A i \in calls :
           ops[i].dest = inv0[Cardinality({ j \in calls : j <= i })].path
      /\ finished =>
           /\ Len(inv) <= k
           /\ inv = Newest(inv0, k)
           /\ \A r \in 1..n : \A e \in 1..Len(inv) : DateLess(inv0[r].date, inv[e].date)

(***************************************************************************)
(* C8. Pruning an inventory that is ascending by date against bound k      *)
(* removes its entries oldest first, one call each: the calls so far       *)
(* remove a prefix of the inventory in order and what is kept is the rest; *)
(* once the loop has ended at most k entries are kept, they are the k      *)
(* newest (all, if there were k or fewer), and every entry removed is      *)
(* older than every entry kept.  Weekly k = MAX_WEEKLIES - 1, monthly      *)
(* k = MAX_MONTHLIES - 1.                                                  *)
(***************************************************************************)
C8_PruneOldestFirst ==
  /\ Scanned /\ StrictlyAscending(W0)
       => PrunedOldestFirst(W0, weeklies, "weekly", MAX_WEEKLIES - 1,
                            pc \in {"pruneM", "done"})
  /\ Scanned /\ StrictlyAscending(M0)
       => PrunedOldestFirst(M0, monthlies, "monthly", MAX_MONTHLIES - 1, pc = "done")

\* Two weekly entries and one monthly entry were removed.
C8_Witness ==
  /\ pc = "done"
  /\ StrictlyAscending(W0) /\ StrictlyAscending(M0)
  /\ Cardinality(OpsOf("rm", "weekly")) >= 2
  /\ Cardinality(OpsOf("rm", "monthly")) >= 1

(***************************************************************************)
(* C9. After a successful run the weekly tier holds a snapshot named for   *)
(* today's date that it did not hold when the run started, and that is the *)
(* only snapshot it has gained.                                            *)
(***************************************************************************)
C9_OneNewWeekly ==
  pc = "done" =>
    /\ PathName(todaysBackup.path) \in ValidNames(fs, weekly_path)
    /\ PathName(todaysBackup.path) \notin ValidNames(fs0, weekly_path)
    /\ ValidNames(fs, weekly_path) \ ValidNames(fs0, weekly_path)
         = {PathName(todaysBackup.path)}

(***************************************************************************)
(* C10. A run makes at most one copy into the monthly tier and at most one *)
(* into the yearly tier, and either tier gains at most one entry.          *)
(***************************************************************************)
C10_OnePromotion ==
  /\ Cardinality(OpsOf("copy", "monthly")) <= 1
  /\ Cardinality(OpsOf("copy", "yearly")) <= 1
  /\ Scanned =>
       /\ Cardinality(IterDir(fs, monthly_path) \ IterDir(fs0, monthly_path)) <= 1
       /\ Cardinality(IterDir(fs, yearly_path) \ IterDir(fs0, yearly_path)) <= 1

\* The newest weekly entry is of December 2023, today is in February 2024:
\* two month boundaries, one promotion.
C10_Witness ==
  /\ pc = "done"
  /\ W0 # << >>
  /\ Last(W0).date = Date(2023, 12, 31)
  /\ todaysBackup.date = Date(2024, 2, 4)
  /\ \E i \in OpsOf("copy", "monthly") : ops[i].ret

\* The paths of the snapshots the run's scan listed, weekly and monthly.
Listed ==
  { W0[k].path : k \in 1..Len(W0) } \cup { M0[k].path : k \in 1..Len(M0) }

(***************************************************************************)
(* C11. A run removes only snapshots its scan listed in the weekly or the  *)
(* monthly inventory: every rm call names one, every path that has gone    *)
(* lies in one, none of them lies in the yearly tier, and none is an entry *)
(* of a tier whose name decodes to no date.                                *)
(***************************************************************************)
C11_RemovesOnlyListed ==
  /\ \A i \in 1..Len(ops) : ops[i].op = "rm" => ops[i].dest \in Listed
  /\ \A p \in (DOMAIN fs0) \ (DOMAIN fs) :
       /\ \E q \in Listed : IsPrefix(q, p)
       /\ ~IsPrefix(Resolve(fs0, << >>, YEARLY_PATH), p)
       /\ \A tier \in {WEEKLY_PATH, MONTHLY_PATH, YEARLY_PATH} :
            LET t == Resolve(fs0, << >>, tier) IN
            Len(p) = Len(t) + 1 /\ IsPrefix(t, p) => path_to_date(p) # NoDate

\* A finished run that removed weekly and monthly snapshots beside a yearly
\* entry.
C11_Witness ==
  /\ pc = "done"
  /\ \E i \in OpsOf("rm", "weekly") : ops[i].ret
  /\ \E i \in OpsOf("rm", "monthly") : ops[i].ret
  /\ IterDir(fs0, YEARLY_PATH) # {}

\* A name of the form YYYY_MM_DD that denotes a calendar date.
IsDateName(name) ==
  /\ Len(name) = 10
  /\ \A i \in {1, 2, 3, 4, 6, 7, 9, 10} : IsDigit(name[i])
  /\ name[5] = "_"
  /\ name[8] = "_"
  /\ ValidDate(IntBodyVal(SubSeq(name, 1, 4), 0), IntBodyVal(SubSeq(name, 6, 7), 0),
               IntBodyVal(SubSeq(name, 9, 10), 0))

(***************************************************************************)
(* C12. path_to_date returns a date only for a name of exactly 10          *)
(* characters of the form YYYY_MM_DD (four digits, underscore, two digits, *)
(* underscore, two digits) that denotes a calendar date, and None for      *)
(* every other name.                                                       *)
(***************************************************************************)
C12_DecodeExact ==
  \A i \in 1..Len(ops) :
    ops[i].op = "path_to_date" =>
      (ops[i].date # NoDate <=> IsDateName(PathName(ops[i].path)))

(***************************************************************************)
(* C13. The inventories scan_existing returns are strictly ascending by    *)
(* date, so that no two of their snapshots have the same date, whatever    *)
(* entries the tier directories hold.                                      *)
(***************************************************************************)
C13_ScanAscending ==
  Scanned => StrictlyAscending(W0) /\ StrictlyAscending(M0)

\* The entries of a tier directory a scan is to list: directories whose name
\* decodes to a date.
Listable(fsys, tier) ==
  { e \in IterDir(fsys, tier) : PathIsDir(fsys, e) /\ path_to_date(e) # NoDate }

\* The entries of the tier directories a scan is to leave out: what is no
\* directory and what has a name that decodes to no date.
LeftOut(fsys) ==
  UNION { IterDir(fsys, tier) \ Listable(fsys, tier) :
          tier \in {weekly_path, monthly_path, yearly_path} }

\* The path a call creates or removes: a promotion creates the source's name
\* in the tier directory.
Target(call) ==
  IF call.op = "copy" /\ call.tier \in {"monthly", "yearly"}
  THEN Append(call.dest, PathName(call.source))
  ELSE call.dest

\* The scan, when it has been made, has listed exactly the listable entries;
\* it fails only for want of the mirror root or of a tier directory.
ScanExact ==
  /\ pc = "backup" =>
       /\ { weeklies[k].path : k \in 1..Len(weeklies) } = Listable(fs, weekly_path)
       /\ { monthlies[k].path : k \in 1..Len(monthlies) } = Listable(fs, monthly_path)
       /\ { yearlies[k].path : k \in 1..Len(yearlies) } = Listable(fs, yearly_path)
  /\ pc = "crashed" =>
       \/ ~PathExists(fs0, SANDBOX)
       \/ \E tier \in {WEEKLY_PATH, MONTHLY_PATH, YEARLY_PATH} : ~PathIsDir(fs0, tier)

(***************************************************************************)
(* C14, as stated. scan_existing returns exactly the subdirectories of the *)
(* tier directory whose names decode to a date; plain files and entries    *)
(* with undecodable names are left out, and no scan and no call of the run *)
(* fails on one of them.                                                   *)
(***************************************************************************)
C14_LeftOutHarmless ==
  /\ ScanExact
  /\ \A i \in 1..Len(ops) : ~ops[i].ret => Target(ops[i]) \notin LeftOut(fs0)

(***************************************************************************)
(* C14, amended. scan_existing returns exactly the subdirectories of the   *)
(* tier directory whose names decode to a date; plain files and entries    *)
(* with undecodable names are left out and no scan fails on them; a call   *)
(* of the run fails on one of them only when it is a copy that is to       *)
(* create a snapshot of the very name a plain file has.                    *)
(***************************************************************************)
C14_LeftOutClash ==
  /\ ScanExact
  /\ \A i \in 1..Len(ops) :
       ~ops[i].ret /\ Target(ops[i]) \in LeftOut(fs0)
         => /\ ops[i].op = "copy"
            /\ ~PathIsDir(fs0, Target(ops[i]))
            /\ path_to_date(Target(ops[i])) # NoDate

\* A run that finished beside a plain file with a date's name, and listed
\* the snapshots beside it.
C14_Witness ==
  /\ pc = "done"
  /\ W0 # << >>
  /\ \E e \in IterDir(fs0, weekly_path) :
       ~PathIsDir(fs0, e) /\ path_to_date(e) # NoDate

\* The latest call was is_sandboxed, with a boundary set.
AskedBoundary ==
  /\ ops # << >>
  /\ Last(ops).op = "is_sandboxed"
  /\ ~sandbox.isNone

(***************************************************************************)
(* C15. With a boundary set, is_sandboxed of a path is false when the      *)
(* path's canonical form is the boundary itself, true when it is a direct  *)
(* or nested child of the boundary, and false when it is a sibling, an     *)
(* ancestor or any other path the boundary is no ancestor of.              *)
(***************************************************************************)
C15_StrictlyInside ==
  AskedBoundary =>
    LET p == Resolve(fs0, << >>, Last(ops).dest)
        b == sandbox.path
    IN  /\ p = b => Last(ops).ret = FALSE
        /\ Len(p) > Len(b) /\ IsPrefix(b, p) => Last(ops).ret = TRUE
        /\ ~IsPrefix(b, p) => Last(ops).ret = FALSE

\* A snapshot directory two levels below the mirror root is inside.
C15_Witness ==
  /\ AskedBoundary
  /\ sandbox.path = SANDBOX
  /\ Last(ops).dest = date_to_path(DateList[1], WEEKLY_PATH)
  /\ Last(ops).ret = TRUE

(***************************************************************************)
(* C16. Decoding the path date_to_path makes of a valid calendar date and  *)
(* a parent directory gives the date back:                                 *)
(* path_to_date(date_to_path(d, parent)) = d.                              *)
(***************************************************************************)
C16_RoundTrip ==
  /\ Len(ops) = 2
  /\ ops[1].op = "date_to_path"
  /\ ops[2].op = "path_to_date"
  => /\ ops[2].path = ops[1].path
     /\ ops[2].date = ops[1].date

(***************************************************************************)
(* C17. A mkdir call that passes the sandbox check and whose mkdir command *)
(* exits with a nonzero status returns False, as copy and rm do, and ends  *)
(* in no other way: a call that ran its command and did not return True    *)
(* returned False without raising.                                         *)
(***************************************************************************)
C17_MkdirReturnsFalse ==
  \A i \in 1..Len(ops) :
    ops[i].op = "mkdir" /\ ops[i].ran /\ ops[i].ret # TRUE
      => ops[i].ret = FALSE /\ ~ops[i].raised

(***************************************************************************)
(* C18. set_sandbox of a path whose canonical form does not exist raises   *)
(* and leaves the stored boundary as it found it; a run whose mirror root  *)
(* does not exist therefore ends in its initialization: no boundary is     *)
(* stored, nothing is scanned, and no copy or removal is called.           *)
(***************************************************************************)
C18_BoundaryNotFound ==
  /\ /\ ops # << >>
     /\ Last(ops).op = "set_sandbox"
     /\ ~PathExists(fs0, Last(ops).dest)
     => /\ Last(ops).raised
        /\ sandbox = Last(ops).boundary
  /\ /\ pc # "lib"
     /\ ~PathExists(fs0, SANDBOX)
     => /\ pc \in {"start", "crashed"}
        /\ sandbox = NoSandbox
        /\ scanned = [weekly |-> << >>, monthly |-> << >>]
        /\ weeklies = << >> /\ monthlies = << >> /\ yearlies = << >>
        /\ ops = << >>
        /\ fs = fs0

\* A run that found no mirror root and ended in its initialization.
C18_Witness ==
  /\ pc = "crashed"
  /\ ~PathExists(fs0, SANDBOX)
  /\ ops = << >>

\* The calendar month of a date: its year and its month.
CalendarMonth(date) == << date.year, date.month >>

(***************************************************************************)
(* C19. A run that gets past the month check with a non-empty scanned      *)
(* weekly inventory whose newest entry is of another calendar month (year  *)
(* and month) than today has copied into the monthly tier; so it has when  *)
(* the newest entry is of today's month number in an earlier year.         *)
(***************************************************************************)
C19_PromotesOnNewCalendarMonth ==
  /\ pc \in {"year", "pruneW", "pruneM", "done"}
  /\ W0 # << >>
  /\ CalendarMonth(Last(W0).date) # CalendarMonth(todaysBackup.date)
  => OpsOf("copy", "monthly") # {}

(***************************************************************************)
(* C20. No removal of a run names the weekly snapshot the run wrote for    *)
(* today, and a run that finishes leaves that snapshot in the weekly tier, *)
(* whatever the weekly inventory and today's date were.                    *)
(***************************************************************************)
C20_TodayKept ==
  /\ \A i \in OpsOf("rm", "weekly") : ops[i].dest # todaysBackup.path
  /\ pc = "done" => PathIsDir(fs, todaysBackup.path)

=============================================================================
